---------------------------- MODULE Spec2Model ----------------------------
(***************************************************************************)
(* Doctor Performance -- Monthwise (src/doctor_performance_app.py).        *)
(*                                                                         *)
(* The module models                                                       *)
(*   - the schema resolver      find_col / normalize_cols                  *)
(*   - the record classifier    categorize_group                           *)
(*   - the aggregation          process_file                               *)
(*   - the center store         st.session_state["center_data"], the files *)
(*                              processed/<center>.csv, and the Process    *)
(*                              and Clear button handlers                  *)
(* and four specifications over it:                                        *)
(*   Spec          the application: upload, Process, Clear, restart        *)
(*   SpecProcess   process_file applied to tables built row by row         *)
(*   SpecSchema    the column binding of process_file applied to headers   *)
(*   SpecClassify  categorize_group applied to labels                      *)
(*                                                                         *)
(* Text is modelled by TLA+ strings; the whitespace class is the space     *)
(* character and letters are ASCII.                                        *)
(***************************************************************************)
EXTENDS Integers, Sequences, FiniteSets, TLC

VARIABLES
    center_data,   \* st.session_state["center_data"]: center -> DataFrame or None
    disk,          \* processed/<center>.csv: center -> file or no file
    last,          \* what the last run of the script did and reported
    lastPut,       \* history: the summary of the last successful Process, None after Clear
    df,            \* SpecProcess: the input table of process_file
    out,           \* SpecProcess: what process_file made of df
    columns,       \* SpecSchema: the header of the input table
    binding,       \* SpecSchema: the columns process_file bound, and the missing roles
    label,         \* SpecClassify: an Item Group cell
    bucket         \* SpecClassify: categorize_group(label)

vars == <<center_data, disk, last, lastPut, df, out, columns, binding, label, bucket>>

appVars == <<center_data, disk, last, lastPut>>
processVars == <<df, out>>
schemaVars == <<columns, binding>>
classifyVars == <<label, bucket>>

-----------------------------------------------------------------------------
(* Bounds of the model.                                                    *)

MaxRows == 2       \* rows of a table in SpecProcess
MaxCols == 5       \* columns of a header in SpecSchema
MaxLabelLen == 11  \* characters of a label in SpecClassify

-----------------------------------------------------------------------------
(* Cells and text.                                                         *)

\* A cell of a DataFrame: missing (NaN/None), a string, or a number.
NaN == [t |-> "nan", s |-> "", n |-> 0]
Str(s) == [t |-> "str", s |-> s, n |-> 0]
Num(n) == [t |-> "num", s |-> "", n |-> n]

\* pd.isna(x)
isna(x) == x.t = "nan"

Digits == "0123456789"
\* The characters of the model in code-point order.
Ascii == " #-/0123456789<>ABCDEFGHIJKLMNOPQRSTUVWXYZ_abcdefghijklmnopqrstuvwxyz"

CharAt(s, i) == SubSeq(s, i, i)

\* The lowercase of each capital letter.
LowerMap ==
    "A" :> "a" @@ "B" :> "b" @@ "C" :> "c" @@ "D" :> "d" @@ "E" :> "e" @@ "F" :> "f" @@
    "G" :> "g" @@ "H" :> "h" @@ "I" :> "i" @@ "J" :> "j" @@ "K" :> "k" @@ "L" :> "l" @@
    "M" :> "m" @@ "N" :> "n" @@ "O" :> "o" @@ "P" :> "p" @@ "Q" :> "q" @@ "R" :> "r" @@
    "S" :> "s" @@ "T" :> "t" @@ "U" :> "u" @@ "V" :> "v" @@ "W" :> "w" @@ "X" :> "x" @@
    "Y" :> "y" @@ "Z" :> "z"

IndexIn(alphabet, c) ==
    IF \E i \in 1..Len(alphabet) : CharAt(alphabet, i) = c
    THEN CHOOSE i \in 1..Len(alphabet) : CharAt(alphabet, i) = c
    ELSE 0

\* str.lower(), one character
LowerChar(c) == IF c \in DOMAIN LowerMap THEN LowerMap[c] ELSE c

RECURSIVE lower(_)
\* str.lower()
lower(s) == IF s = "" THEN "" ELSE LowerChar(CharAt(s, 1)) \o lower(Tail(s))

RECURSIVE lstrip(_)
lstrip(s) == IF s # "" /\ CharAt(s, 1) = " " THEN lstrip(Tail(s)) ELSE s

RECURSIVE rstrip(_)
rstrip(s) ==
    IF s # "" /\ CharAt(s, Len(s)) = " " THEN rstrip(SubSeq(s, 1, Len(s) - 1)) ELSE s

\* str.strip()
strip(s) == rstrip(lstrip(s))

RECURSIVE remove_spaces(_)
\* str.replace(" ", "")
remove_spaces(s) ==
    IF s = "" THEN ""
    ELSE IF CharAt(s, 1) = " " THEN remove_spaces(Tail(s))
    ELSE CharAt(s, 1) \o remove_spaces(Tail(s))

RECURSIVE collapse(_)
\* " ".join(s.split()) of a string with no leading space
collapse(s) ==
    IF s = "" THEN ""
    ELSE IF CharAt(s, 1) = " "
         THEN LET r == lstrip(s) IN IF r = "" THEN "" ELSE " " \o collapse(r)
         ELSE CharAt(s, 1) \o collapse(Tail(s))

\* k in s
contains(s, k) ==
    \E i \in 1..(Len(s) - Len(k) + 1) : SubSeq(s, i, i + Len(k) - 1) = k

\* any(k in s for k in keys)
any_in(keys, s) == \E j \in 1..Len(keys) : contains(s, keys[j])

RECURSIVE StrLess(_, _)
\* s < t for Python strings
StrLess(s, t) ==
    IF t = "" THEN FALSE
    ELSE IF s = "" THEN TRUE
    ELSE LET a == IndexIn(Ascii, CharAt(s, 1))
             b == IndexIn(Ascii, CharAt(t, 1))
         IN  IF a # b THEN a < b ELSE StrLess(Tail(s), Tail(t))

IsDigits(s) == s # "" /\ \A i \in 1..Len(s) : IndexIn(Digits, CharAt(s, i)) # 0

RECURSIVE StrToNat(_)
\* int(s) of a string of digits
StrToNat(s) ==
    IF s = "" THEN 0
    ELSE StrToNat(SubSeq(s, 1, Len(s) - 1)) * 10 + (IndexIn(Digits, CharAt(s, Len(s))) - 1)

RECURSIVE NatToStr(_)
\* str(n) of a natural number
NatToStr(n) ==
    IF n < 10 THEN CharAt(Digits, n + 1)
    ELSE NatToStr(n \div 10) \o CharAt(Digits, (n % 10) + 1)

-----------------------------------------------------------------------------
(* Schema resolver.                                                        *)

\* An optional column name: find_col returns a column or None.
NoCol == [some |-> FALSE, v |-> ""]
Col(c) == [some |-> TRUE, v |-> c]

RECURSIVE normalize_cols(_)
\* normalize_cols: the header with every name trimmed and its runs of
\* whitespace collapsed.
normalize_cols(cols) ==
    IF cols = <<>> THEN <<>>
    ELSE <<collapse(strip(Head(cols)))>> \o normalize_cols(Tail(cols))

DOC_TOKENS == <<"docname", "doc", "doctor", "provider", "physician">>

\* wanted = {c.lower().strip(): c for c in candidates}, its keys
Wanted(candidates) == {strip(lower(candidates[j])) : j \in 1..Len(candidates)}

\* The first loop of find_col: the columns whose lowercased name is one
\* of the lowercased candidates.
ExactMatches(cols, candidates) ==
    LET wanted == Wanted(candidates)
    IN  {i \in 1..Len(cols) : strip(lower(cols[i])) \in wanted}

\* The second loop of find_col: the columns whose lowercased name without
\* spaces contains a doctor-like token.
HeuristicMatches(cols) ==
    {i \in 1..Len(cols) : any_in(DOC_TOKENS, remove_spaces(lower(cols[i])))}

First(S) == CHOOSE i \in S : \A j \in S : i <= j

\* Each loop returns at its first match, in the order of the table.
find_col(cols, candidates) ==
    LET exact == ExactMatches(cols, candidates)
    IN  IF exact # {} THEN Col(cols[First(exact)])
        ELSE LET heur == HeuristicMatches(cols)
             IN  IF heur # {} THEN Col(cols[First(heur)]) ELSE NoCol

VISIT_ALIASES == <<"VisitNo", "Visit No", "Visit_ID", "Visit Id">>
DATE_ALIASES == <<"VisitDate", "Visit Date", "Date">>
DOC_ALIASES == <<"DocName", "Doc Name", "Doctor", "Doctor Name", "Provider", "Provider Name">>
GROUP_ALIASES == <<"Item Group", "ItemGroup", "Group">>
AMOUNT_ALIASES == <<"Net Amount", "NetAmount", "ActivityIns", "Activity Ins", "Amount">>

\* The labels process_file reports a missing role by.
ROLE_LABELS == <<"VisitNo", "VisitDate", "DocName", "Item Group", "Amount (Net/ActivityIns)">>

\* The head of process_file: the five bindings over the normalized header
\* and the labels of the roles left unbound, in the order of the code.
bind_columns(cols_in) ==
    LET cols == normalize_cols(cols_in)
        found == << find_col(cols, VISIT_ALIASES),
                    find_col(cols, DATE_ALIASES),
                    find_col(cols, DOC_ALIASES),
                    find_col(cols, GROUP_ALIASES),
                    find_col(cols, AMOUNT_ALIASES) >>
    IN  [ visit_col |-> found[1],
          date_col  |-> found[2],
          doc_col   |-> found[3],
          group_col |-> found[4],
          amt_col   |-> found[5],
          missing   |-> {ROLE_LABELS[i] : i \in {k \in 1..5 : ~found[k].some}} ]

-----------------------------------------------------------------------------
(* Record classifier.                                                      *)

CONSULTATION_KEYS ==
    <<"consult", "opd", "follow up", "follow-up", "revisit", "tele", "teleconsult">>
MEDICINE_KEYS ==
    <<"medicine", "medicin", "drug", "pharmacy", "rx", "tablet", "capsule",
      "syrup", "drops", "cream", "ointment", "spray", "suppository">>
PROCEDURE_KEYS ==
    <<"procedure", "proc", "injection", "inj", "iv", "infusion", "nebul",
      "ecg", "dressing", "suturing", "removal", "x-ray", "xray", "ultrasound",
      "usg", "physio", "cast", "lab sample", "venipuncture", "nebulization",
      "ivf", "drip", "echo", "spirometry", "vaccin", "vaccine", "bandage">>

\* str(x) of a cell that is not missing
CellStr(x) == IF x.t = "num" THEN NatToStr(x.n) ELSE x.s

\* categorize_group with a fault: the Medicines keywords are tried first.
categorize_group_medicines_first(x) ==
    IF isna(x) THEN "Other"
    ELSE LET s == lower(strip(CellStr(x)))
         IN  IF any_in(MEDICINE_KEYS, s) THEN "Medicines"
             ELSE IF any_in(CONSULTATION_KEYS, s) THEN "Consultation"
             ELSE IF any_in(PROCEDURE_KEYS, s) THEN "Procedure"
             ELSE "Other"

categorize_group(x) ==
    IF isna(x) THEN "Other"
    ELSE LET s == lower(strip(CellStr(x)))
         IN  IF any_in(CONSULTATION_KEYS, s) THEN "Consultation"
             ELSE IF any_in(MEDICINE_KEYS, s) THEN "Medicines"
             ELSE IF any_in(PROCEDURE_KEYS, s) THEN "Procedure"
             ELSE "Other"

-----------------------------------------------------------------------------
(* Conversions of process_file.                                            *)

\* A timestamp or NaT.
NaT == [valid |-> FALSE, y |-> 0, m |-> 0]
Timestamp(y, m) == [valid |-> TRUE, y |-> y, m |-> m]

IsLeap(y) == (y % 4 = 0 /\ y % 100 # 0) \/ y % 400 = 0

DaysIn(y, m) ==
    IF m = 2 THEN (IF IsLeap(y) THEN 29 ELSE 28)
    ELSE IF m \in {4, 6, 9, 11} THEN 30 ELSE 31

\* The date a string in the form YYYY-MM-DD stands for; NaT for a string
\* that is no such date.  (The strings of the model are in that form or are
\* not dates at all.)
ParseIso(s) ==
    IF /\ Len(s) = 10
       /\ CharAt(s, 5) = "-" /\ CharAt(s, 8) = "-"
       /\ IsDigits(SubSeq(s, 1, 4)) /\ IsDigits(SubSeq(s, 6, 7)) /\ IsDigits(SubSeq(s, 9, 10))
    THEN LET y == StrToNat(SubSeq(s, 1, 4))
             m == StrToNat(SubSeq(s, 6, 7))
             d == StrToNat(SubSeq(s, 9, 10))
         IN  IF y >= 1 /\ m \in 1..12 /\ d >= 1 /\ d <= DaysIn(y, m)
             THEN Timestamp(y, m) ELSE NaT
    ELSE NaT

\* to_datetime with a fault: text that is no date becomes the epoch
\* instead of NaT.
to_datetime_epoch_default(x) ==
    IF x.t = "nan" THEN NaT
    ELSE IF x.t = "num" THEN Timestamp(1970, 1)
    ELSE IF ParseIso(strip(x.s)).valid THEN ParseIso(strip(x.s)) ELSE Timestamp(1970, 1)

\* pd.to_datetime(x, errors="coerce") of a cell: a missing or unparseable
\* cell is NaT; a small integer counts nanoseconds from 1970-01-01.
to_datetime(x) ==
    IF x.t = "nan" THEN NaT
    ELSE IF x.t = "num" THEN Timestamp(1970, 1)
    ELSE ParseIso(strip(x.s))

\* pd.to_numeric(x, errors="coerce").fillna(0) of a cell
to_numeric_fill0(x) ==
    IF x.t = "num" THEN x.n
    ELSE IF x.t = "str" /\ IsDigits(strip(x.s)) THEN StrToNat(strip(x.s))
    ELSE 0

MONTH_ABBR == <<"Jan", "Feb", "Mar", "Apr", "May", "Jun",
                "Jul", "Aug", "Sep", "Oct", "Nov", "Dec">>

\* safe_month_label: the argument 0 stands for a missing month number.
safe_month_label(n) == IF n \in 1..12 THEN MONTH_ABBR[n] ELSE ""

\* visit_key with a fault: the text is not trimmed.
visit_key_untrimmed(x) == IF x.t = "nan" THEN "nan" ELSE CellStr(x)

\* vdf[visit_col].astype(str).str.strip(): the missing cell prints as "nan".
visit_key(x) == IF x.t = "nan" THEN "nan" ELSE strip(CellStr(x))

\* round0 with a fault: a tie goes up.
round0_half_up(total, visits) == (2 * total + visits) \div (2 * visits)

\* Series.round(0) of total / visits for integers total >= 0, visits > 0:
\* the nearest integer, a tie going to the even one.
round0(total, visits) ==
    LET q == total \div visits
        r == total % visits
    IN  IF 2 * r < visits THEN q
        ELSE IF 2 * r > visits THEN q + 1
        ELSE IF q % 2 = 0 THEN q ELSE q + 1

\* out["Avg_per_Visit"]: (Total / Visits.replace(0, NA)).round(0).fillna(0)
avg_per_visit(total, visits) == IF visits = 0 THEN 0 ELSE round0(total, visits)

-----------------------------------------------------------------------------
(* process_file.                                                           *)

BUCKETS == <<"Consultation", "Medicines", "Procedure", "Other">>

\* The position of the column called name (a name process_file bound).
ColIndex(cols, name) == First({i \in 1..Len(cols) : cols[i] = name})

\* Lines 114-125: one row with its Year, MonthNum, Month, numeric amount
\* and Bucket.  The amount column is overwritten (line 124) before the
\* group column is read (line 125).
normalize_row(cols, b, row) ==
    LET dt  == to_datetime(row[ColIndex(cols, b.date_col.v)])
        amt == to_numeric_fill0(row[ColIndex(cols, b.amt_col.v)])
        row2 == [row EXCEPT ![ColIndex(cols, b.amt_col.v)] = Num(amt)]
    IN  [ doc      |-> row2[ColIndex(cols, b.doc_col.v)],
          visit    |-> row2[ColIndex(cols, b.visit_col.v)],
          Year     |-> dt.y,
          MonthNum |-> IF dt.valid THEN dt.m ELSE 0,
          Month    |-> safe_month_label(IF dt.valid THEN dt.m ELSE 0),
          amount   |-> amt,
          Bucket   |-> categorize_group(row2[ColIndex(cols, b.group_col.v)]) ]

RECURSIVE normalize_rows(_, _, _)
\* Lines 114-125 over the rows of the table.
normalize_rows(cols, b, rows) ==
    IF rows = <<>> THEN <<>>
    ELSE <<normalize_row(cols, b, Head(rows))>> \o normalize_rows(cols, b, Tail(rows))

\* ok = df["MonthNum"].notna()
ok(rec) == rec.MonthNum # 0

\* A group key of the pivot and of the visit count.
KeyOf(rec) == [doc |-> rec.doc, Year |-> rec.Year, MonthNum |-> rec.MonthNum]

\* The rows a groupby keeps: pivot_table and groupby drop a row whose key
\* holds a missing value (dropna=True).
Grouped(recs) == {i \in 1..Len(recs) : ok(recs[i]) /\ ~isna(recs[i].doc)}

RECURSIVE SumOver(_, _)
\* The sum of f over the finite set S.
SumOver(f, S) ==
    IF S = {} THEN 0
    ELSE LET x == CHOOSE x \in S : TRUE IN f[x] + SumOver(f, S \ {x})

\* pivot_table(..., aggfunc="sum", fill_value=0): the sum of the amount of
\* the rows of a key in a bucket.
pivot_sum(recs, key, bkt) ==
    SumOver([i \in 1..Len(recs) |-> recs[i].amount],
            {i \in Grouped(recs) : KeyOf(recs[i]) = key /\ recs[i].Bucket = bkt})

\* groupby(...)[visit_col].nunique(): the distinct trimmed visit numbers of a key.
nunique(recs, key) ==
    Cardinality({visit_key(recs[i].visit) : i \in {j \in Grouped(recs) : KeyOf(recs[j]) = key}})

\* Lines 153-162: the summary row of a key.
summary_row(recs, key) ==
    LET c == pivot_sum(recs, key, "Consultation")
        m == pivot_sum(recs, key, "Medicines")
        p == pivot_sum(recs, key, "Procedure")
        o == pivot_sum(recs, key, "Other")
        v == nunique(recs, key)
    IN  [ DocName |-> key.doc, Year |-> key.Year, MonthNum |-> key.MonthNum,
          Month |-> safe_month_label(key.MonthNum),
          Consultation |-> c, Medicines |-> m, Procedure |-> p, Other |-> o,
          Visits |-> v, Total |-> c + m + p + o,
          Avg_per_Visit |-> avg_per_visit(c + m + p + o, v) ]

\* The order of sort_values([doc_col, "Year", "MonthNum"]) on rows whose
\* doctor is a string.
RowLess(a, b) ==
    \/ StrLess(CellStr(a.DocName), CellStr(b.DocName))
    \/ /\ a.DocName = b.DocName
       /\ \/ a.Year < b.Year
          \/ a.Year = b.Year /\ a.MonthNum < b.MonthNum

RECURSIVE sort_values(_)
\* The rows of the set S in ascending order.
sort_values(S) ==
    IF S = {} THEN <<>>
    ELSE LET lo == CHOOSE x \in S : \A y \in S \ {x} : RowLess(x, y)
         IN  <<lo>> \o sort_values(S \ {lo})

\* A table: its header and its rows of cells.
Table(cols, rows) == [cols |-> cols, rows |-> rows]

\* What process_file returns or raises.  raised: ValueError("Missing
\* required column(s): ..."); otherwise rows is the DataFrame returned,
\* bad_dates the count of the st.warning, and amt_col_used / group_col_used
\* the attrs.
process_file(df_in) ==
    LET cols == normalize_cols(df_in.cols)
        b == bind_columns(df_in.cols)
    IN  IF b.missing # {}
        THEN [ raised |-> TRUE, missing |-> b.missing, rows |-> <<>>,
               bad_dates |-> 0, amt_col_used |-> "", group_col_used |-> "" ]
        ELSE LET recs == normalize_rows(cols, b, df_in.rows)
                 keys == {KeyOf(recs[i]) : i \in Grouped(recs)}
             IN  [ raised |-> FALSE, missing |-> {},
                   rows |-> sort_values({summary_row(recs, k) : k \in keys}),
                   bad_dates |-> Cardinality({i \in 1..Len(recs) : ~ok(recs[i])}),
                   amt_col_used |-> b.amt_col.v,
                   group_col_used |-> b.group_col.v ]

-----------------------------------------------------------------------------
(* Center store: the session slot, the CSV file, and their conversions.    *)

CENTERS == {"easyhealth", "excellent"}

\* A slot of st.session_state["center_data"]: None or a DataFrame.
NoData == [isNone |-> TRUE, rows |-> <<>>]
DataFrame(rows) == [isNone |-> FALSE, rows |-> rows]

\* processed/<center>.csv: absent, or its lines, each a sequence of fields.
NoFile == [exists |-> FALSE, lines |-> <<>>]
File(lines) == [exists |-> TRUE, lines |-> lines]

\* The strings pandas reads as a missing value (read_excel and read_csv,
\* keep_default_na=True).
STR_NA_VALUES == {"", "#N/A", "#N/A N/A", "#NA", "-1.#IND", "-1.#QNAN", "-NaN", "-nan",
                  "1.#IND", "1.#QNAN", "<NA>", "N/A", "NA", "NULL", "NaN", "None",
                  "n/a", "nan", "null"}

\* A cell as read_excel reads it: text that spells a missing value is NaN.
read_cell(x) == IF x.t = "str" /\ x.s \in STR_NA_VALUES THEN NaN ELSE x

RECURSIVE read_cells(_)
read_cells(row) ==
    IF row = <<>> THEN <<>> ELSE <<read_cell(Head(row))>> \o read_cells(Tail(row))

RECURSIVE read_rows(_)
read_rows(rows) ==
    IF rows = <<>> THEN <<>> ELSE <<read_cells(Head(rows))>> \o read_rows(Tail(rows))

\* An uploaded workbook: whether openpyxl can read it, and its first sheet.
\* load_excel raises on an unreadable file.
load_excel(file) ==
    IF ~file.readable
    THEN [raised |-> TRUE, cols |-> <<>>, rows |-> <<>>]
    ELSE [raised |-> FALSE, cols |-> file.cols, rows |-> read_rows(file.rows)]

CSV_HEADER == <<"DocName", "Year", "MonthNum", "Month", "Consultation", "Medicines",
                "Procedure", "Other", "Visits", "Total", "Avg_per_Visit">>

\* One row of df.to_csv(index=False): a missing cell is the empty field.
\* (The columns are written in this one order; the numbers are integers.)
csv_line(r) ==
    << IF isna(r.DocName) THEN "" ELSE CellStr(r.DocName),
       NatToStr(r.Year), NatToStr(r.MonthNum), r.Month,
       NatToStr(r.Consultation), NatToStr(r.Medicines), NatToStr(r.Procedure),
       NatToStr(r.Other), NatToStr(r.Visits), NatToStr(r.Total),
       NatToStr(r.Avg_per_Visit) >>

RECURSIVE csv_lines(_)
csv_lines(rows) ==
    IF rows = <<>> THEN <<>> ELSE <<csv_line(Head(rows))>> \o csv_lines(Tail(rows))

\* df.to_csv(index=False): the header line and one line per row.
to_csv(rows) == <<CSV_HEADER>> \o csv_lines(rows)

f_is_number(f) == IsDigits(f) \/ f \in STR_NA_VALUES

\* One line of the file as read_csv reads it: a DocName field spelling a
\* missing value is NaN, and the column is numeric when every field of it
\* is a number.
csv_row(f, numericDoc) ==
    [ DocName |-> IF f[1] \in STR_NA_VALUES THEN NaN
                  ELSE IF numericDoc THEN Num(StrToNat(f[1])) ELSE Str(f[1]),
      Year |-> StrToNat(f[2]), MonthNum |-> StrToNat(f[3]), Month |-> f[4],
      Consultation |-> StrToNat(f[5]), Medicines |-> StrToNat(f[6]),
      Procedure |-> StrToNat(f[7]), Other |-> StrToNat(f[8]),
      Visits |-> StrToNat(f[9]), Total |-> StrToNat(f[10]),
      Avg_per_Visit |-> StrToNat(f[11]) ]

RECURSIVE csv_rows(_, _)
csv_rows(body, numericDoc) ==
    IF body = <<>> THEN <<>>
    ELSE <<csv_row(Head(body), numericDoc)>> \o csv_rows(Tail(body), numericDoc)

\* pd.read_csv of the lines of a file with at least a header line.
read_csv(lines) ==
    LET body == Tail(lines)
    IN  csv_rows(body, \A i \in 1..Len(body) : f_is_number(body[i][1]))

\* load_center_from_disk: None when there is no file or read_csv raises
\* (a file of no bytes: EmptyDataError).
load_center_from_disk(f) ==
    IF f.exists /\ f.lines # <<>> THEN DataFrame(read_csv(f.lines)) ELSE NoData

\* What a failed write_text can leave behind: the file as it was (open
\* failed), or the file truncated by open and written up to some line.
FailedWrites(old, lines) ==
    {old} \cup {File(SubSeq(lines, 1, k)) : k \in 0..(Len(lines) - 1)}

-----------------------------------------------------------------------------
(* The application: Process, Clear saved data, and a new session.          *)

\* The workbooks an operator uploads.
NoUpload == [present |-> FALSE, readable |-> FALSE, cols |-> <<>>, rows |-> <<>>]
Workbook(cols, rows) == [present |-> TRUE, readable |-> TRUE, cols |-> cols, rows |-> rows]

\* The two line items of one visit in January.
WB_Scenario ==
    Workbook(<<"VisitNo", "VisitDate", "DocName", "Item Group", "ActivityIns">>,
             << <<Str("V1"), Str("2024-01-05"), Str("Dr A"), Str("Consultation"), Num(100)>>,
                <<Str("V1"), Str("2024-01-05"), Str("Dr A"), Str("Tablet"), Num(50)>> >>)

\* Aliased and untidy column names, two doctors, a blank doctor, a bad date.
WB_Mixed ==
    Workbook(<<"Visit No", " Date", "Doctor", "Group", "Net  Amount">>,
             << <<Str("7"), Str("2024-02-10"), Str("Dr B"), Str("Injection"), Num(5)>>,
                <<Str("8"), Str("2024-02-10"), Str("NA"), Str("X-Ray"), Num(2)>>,
                <<Str("9"), Str("not-a-date"), Str("Dr B"), Str("Tablet"), Num(3)>>,
                <<Str("10"), Str("2024-01-05"), Str("Dr A"), Str("OPD"), Num(4)>> >>)

\* No doctor-like column at all.
WB_NoDoctor ==
    Workbook(<<"VisitNo", "VisitDate", "Item Group", "Amount">>,
             << <<Str("V1"), Str("2024-01-05"), Str("Consultation"), Num(100)>> >>)

\* Not a workbook openpyxl can read.
WB_Corrupt == [present |-> TRUE, readable |-> FALSE, cols |-> <<>>, rows |-> <<>>]

Uploads == {NoUpload, WB_Scenario, WB_Mixed, WB_NoDoctor, WB_Corrupt}

\* What lines 249-250 make of each upload: the table load_excel reads and
\* the summary process_file returns (or that either raised).
ingest(source_df) ==
    [ read_raised |-> source_df.raised, result_df |-> process_file(source_df) ]

Ingest == [wb \in Uploads |-> ingest(load_excel(wb))]

Report(op, center, result) == [op |-> op, center |-> center, result |-> result]

\* The variables of the specifications that are not running.
IdleApp ==
    /\ disk = [c \in CENTERS |-> NoFile]
    /\ center_data = [c \in CENTERS |-> NoData]
    /\ lastPut = [c \in CENTERS |-> NoData]
    /\ last = Report("init", "", "")
IdleProcess == df = Table(<<>>, <<>>) /\ out = Table(<<>>, <<>>)
IdleSchema == columns = <<>> /\ binding = <<>>
IdleClassify == label = NaN /\ bucket = ""

\* Lines 31-32 on a machine with no processed files yet.
InitApp ==
    /\ disk = [c \in CENTERS |-> NoFile]
    /\ center_data = [c \in CENTERS |-> load_center_from_disk(NoFile)]
    /\ lastPut = [c \in CENTERS |-> NoData]
    /\ last = Report("init", "", "")

\* ProcessFailed with a fault: the slot is reset before the file is read.
ProcessFailed_slot_reset(t, result) ==
    /\ last' = Report("process", t, result)
    /\ center_data' = [center_data EXCEPT ![t] = NoData]
    /\ UNCHANGED <<disk, lastPut, processVars, schemaVars, classifyVars>>

\* The Process handler when it stops before line 251: no upload (line 246),
\* or load_excel or process_file raised (line 258).
ProcessFailed(t, result) ==
    /\ last' = Report("process", t, result)
    /\ UNCHANGED <<center_data, disk, lastPut, processVars, schemaVars, classifyVars>>

\* Lines 251-253: the slot is assigned, then the file is written.
ProcessSaved(t, rows) ==
    /\ center_data' = [center_data EXCEPT ![t] = DataFrame(rows)]
    /\ disk' = [disk EXCEPT ![t] = File(to_csv(rows))]
    /\ lastPut' = [lastPut EXCEPT ![t] = DataFrame(rows)]
    /\ last' = Report("process", t, "saved")
    /\ UNCHANGED <<processVars, schemaVars, classifyVars>>

\* Lines 251-252 and 258: the slot is assigned and write_text raises.
ProcessWriteFailed(t, rows) ==
    /\ center_data' = [center_data EXCEPT ![t] = DataFrame(rows)]
    /\ \E f \in FailedWrites(disk[t], to_csv(rows)) : disk' = [disk EXCEPT ![t] = f]
    /\ last' = Report("process", t, "write_error")
    /\ UNCHANGED <<lastPut, processVars, schemaVars, classifyVars>>

\* The Process handler on the upload wb, given what lines 249-250 make of it.
process_button(t, wb, read_raised, result_df) ==
    \/ ~wb.present /\ ProcessFailed(t, "no_file")
    \/ wb.present /\ read_raised /\ ProcessFailed(t, "read_error")
    \/ wb.present /\ ~read_raised /\ result_df.raised
          /\ ProcessFailed(t, "schema_error")
    \/ wb.present /\ ~read_raised /\ ~result_df.raised
          /\ ProcessSaved(t, result_df.rows)
    \/ wb.present /\ ~read_raised /\ ~result_df.raised
          /\ ProcessWriteFailed(t, result_df.rows)

\* The Process button of center t with the upload wb in its uploader.
Process(t, wb) ==
    process_button(t, wb, Ingest[wb].read_raised, Ingest[wb].result_df)

\* The Clear saved data button of center t.
Clear(t) ==
    /\ center_data' = [center_data EXCEPT ![t] = NoData]
    /\ disk' = [disk EXCEPT ![t] = NoFile]
    /\ lastPut' = [lastPut EXCEPT ![t] = NoData]
    /\ last' = Report("clear", t, "cleared")
    /\ UNCHANGED <<processVars, schemaVars, classifyVars>>

\* The process stops and a new session starts: every slot is loaded from
\* its file (lines 31-32).
Restart ==
    /\ center_data' = [c \in CENTERS |-> load_center_from_disk(disk[c])]
    /\ last' = Report("restart", "", "")
    /\ UNCHANGED <<disk, lastPut, processVars, schemaVars, classifyVars>>

\* Lines 200-203: render_center_view reports None and the empty DataFrame
\* alike as no data.
Shown(data) == IF data.isNone \/ data.rows = <<>> THEN NoData ELSE data

\* get: what render_center_view shows for center t.
Get(t) == Shown(center_data[t])

-----------------------------------------------------------------------------
(* process_file on tables built row by row.                                *)

\* A sheet layout: the header and, per column, the cells a row may hold.
Layouts ==
    { [ cols |-> <<"VisitNo", "VisitDate", "DocName", "Item Group", "ActivityIns">>,
        doms |-> << {Str("V1"), Str(" V1"), Str("V2")},
                    {Str("2024-01-05")},
                    {Str("Dr A")},
                    {Str("OPD Pharmacy"), Str("Tablet")},
                    {Num(5), Str("x")} >> ],
      [ cols |-> <<"Doctor Name", "net  amount", "Group", "Date", "Visit Id">>,
        doms |-> << {NaN, Str(" "), Str("Dr B")},
                    {Str("3")},
                    {NaN, Str("Injection")},
                    {Str("2024-01-05"), Str("2024-02-10")},
                    {Str("7")} >> ],
      [ cols |-> <<"Visit_ID", " Visit Date", "Provider", "ItemGroup", "Amount">>,
        doms |-> << {NaN, Str("nan")},
                    {NaN, Str("not-a-date"), Str("2024-02-30"), Str("2024-02-29")},
                    {Str(""), Str("Dr C")},
                    {Str("Lab")},
                    {Num(1)} >> ],
      [ cols |-> <<"VisitNo", "VisitDate", "Item Group", "Amount">>,
        doms |-> << {Str("V1"), NaN},
                    {Str("2024-01-05")},
                    {Str("Consultation")},
                    {Num(1), Num(2)} >> ] }

RECURSIVE Product(_)
\* The rows over a sequence of column domains.
Product(doms) ==
    IF doms = <<>> THEN {<<>>}
    ELSE {<<x>> \o r : x \in Head(doms), r \in Product(Tail(doms))}

InitProcess ==
    /\ \E L \in Layouts : df = Table(L.cols, <<>>)
    /\ out = process_file(df)
    /\ IdleApp /\ IdleSchema /\ IdleClassify

\* One more row in the sheet, and process_file applied to it.
AppendRow(r) ==
    /\ Len(df.rows) < MaxRows
    /\ df' = Table(df.cols, Append(df.rows, r))
    /\ out' = process_file(df')
    /\ UNCHANGED <<appVars, schemaVars, classifyVars>>

NextProcess ==
    \E L \in Layouts : L.cols = df.cols /\ \E r \in Product(L.doms) : AppendRow(r)

-----------------------------------------------------------------------------
(* The column binding on headers built column by column.                   *)

ColumnNames == {"VisitNo", "Visit  Date", "DocName", "Item Group", "Amount",
                "net amount", "Referring Physician", "Notes"}

InitSchema ==
    /\ columns = <<>>
    /\ binding = bind_columns(columns)
    /\ IdleApp /\ IdleProcess /\ IdleClassify

\* One more column in the header, and the binding process_file makes of it.
AddColumn(c) ==
    /\ Len(columns) < MaxCols
    /\ \A i \in 1..Len(columns) : columns[i] # c
    /\ columns' = Append(columns, c)
    /\ binding' = bind_columns(columns')
    /\ UNCHANGED <<appVars, processVars, classifyVars>>

NextSchema == \E c \in ColumnNames : AddColumn(c)

-----------------------------------------------------------------------------
(* categorize_group on labels built token by token.                        *)

Tokens == {"OPD", "Tablet", "Inj", "Lab", " "}

InitClassify ==
    /\ label \in {NaN, Str("")}
    /\ bucket = categorize_group(label)
    /\ IdleApp /\ IdleProcess /\ IdleSchema

\* A longer label, and its bucket.
AppendToken(tok) ==
    /\ Len(label.s) + Len(tok) <= MaxLabelLen
    /\ label' = Str(label.s \o tok)
    /\ bucket' = categorize_group(label')
    /\ UNCHANGED <<appVars, processVars, schemaVars>>

NextClassify == \E tok \in Tokens : AppendToken(tok)

-----------------------------------------------------------------------------
(* Specifications.                                                         *)

Init == InitApp /\ IdleProcess /\ IdleSchema /\ IdleClassify

Next ==
    \/ \E t \in CENTERS : \E wb \in Uploads : Process(t, wb)
    \/ \E t \in CENTERS : Clear(t)
    \/ Restart

Spec == Init /\ [][Next]_vars

SpecProcess == InitProcess /\ [][NextProcess]_vars

SpecSchema == InitSchema /\ [][NextSchema]_vars

SpecClassify == InitClassify /\ [][NextClassify]_vars

-----------------------------------------------------------------------------
(* Properties of the application (Spec).                                   *)

\* C1: a fatal ingest failure leaves the store of the center untouched: when
\* Process fails because the file cannot be read or because process_file
\* raises for a missing column, the session slots and the CSV files are
\* what they were before the attempt.
C1_FatalFailureLeavesStoreUntouched ==
    [][ (last'.op = "process" /\ last'.result \in {"read_error", "schema_error"})
           => (center_data' = center_data /\ disk' = disk) ]_vars

\* A failed ingest, for a missing column, over a center that holds a saved
\* summary.
C1_FailedOverSavedSummary ==
    /\ last.op = "process" /\ last.result = "schema_error"
    /\ ~center_data[last.center].isNone
    /\ center_data[last.center].rows # <<>>
    /\ disk[last.center] = File(to_csv(center_data[last.center].rows))

\* C2: put commits to durable storage before the summary is visible: in no
\* state does a session slot hold a summary that the file of the center
\* does not hold.
C2_VisibleSummaryIsDurable ==
    \A t \in CENTERS :
        ~center_data[t].isNone
            => (disk[t].exists /\ disk[t].lines = to_csv(center_data[t].rows))

\* C3: durability across restart: after a restart, get(center) is the
\* summary of the last successful put of the center, and is empty when
\* there was none or a clear followed it.
C3_RestartReturnsLastPut ==
    last.op = "restart" => \A t \in CENTERS : Get(t) = Shown(lastPut[t])

-----------------------------------------------------------------------------
(* Properties of the column binding (SpecSchema).                          *)

ALIASES == <<VISIT_ALIASES, DATE_ALIASES, DOC_ALIASES, GROUP_ALIASES, AMOUNT_ALIASES>>

RoleCol(b, k) ==
    IF k = 1 THEN b.visit_col ELSE IF k = 2 THEN b.date_col
    ELSE IF k = 3 THEN b.doc_col ELSE IF k = 4 THEN b.group_col ELSE b.amt_col

\* C4: the substring fallback applies to the doctor-name role only: a
\* header with no case-insensitive exact match for any alias of the VisitNo,
\* VisitDate, Item Group or Amount role leaves that role unbound, and
\* process_file fails naming it, whatever doctor-like columns there are.
C4_FallbackOnlyForDoctorRole ==
    \A k \in {1, 2, 4, 5} :
        ExactMatches(normalize_cols(columns), ALIASES[k]) = {}
            => (~RoleCol(binding, k).some /\ ROLE_LABELS[k] \in binding.missing)

\* C10: a header with a column matching "Net Amount" or "NetAmount" and a
\* column matching a later Amount alias, in any order, binds the Amount
\* role to the Net Amount column.
C10_NetAmountPreferred ==
    LET cols == normalize_cols(columns)
        net == {i \in 1..Len(cols) : strip(lower(cols[i])) \in {"net amount", "netamount"}}
        later == {i \in 1..Len(cols) :
                    strip(lower(cols[i])) \in {"activityins", "activity ins", "amount"}}
    IN  (net # {} /\ later # {}) => binding.amt_col = Col(cols[First(net)])

-----------------------------------------------------------------------------
(* Properties of the classifier (SpecClassify).                            *)

\* C8: categorize_group maps a label to exactly one bucket by fixed
\* precedence over substring containment on the trimmed, lowercased label:
\* Consultation, else Medicines, else Procedure, else Other; an empty or
\* missing label is Other.
C8_ClassifierPrecedence ==
    LET s == lower(strip(label.s))
        c == \E i \in 1..Len(CONSULTATION_KEYS) : contains(s, CONSULTATION_KEYS[i])
        m == \E i \in 1..Len(MEDICINE_KEYS) : contains(s, MEDICINE_KEYS[i])
        p == \E i \in 1..Len(PROCEDURE_KEYS) : contains(s, PROCEDURE_KEYS[i])
    IN  /\ bucket \in {"Consultation", "Medicines", "Procedure", "Other"}
        /\ (isna(label) \/ s = "") => bucket = "Other"
        /\ ~isna(label) =>
              /\ c => bucket = "Consultation"
              /\ (~c /\ m) => bucket = "Medicines"
              /\ (~c /\ ~m /\ p) => bucket = "Procedure"
              /\ (~c /\ ~m /\ ~p) => bucket = "Other"

\* A label with a Consultation keyword after a Medicines keyword, in capitals
\* and with spaces around, classified Consultation.
C8_BothKeywordsIsConsultation ==
    /\ label = Str(" Tablet OPD")
    /\ bucket = "Consultation"

-----------------------------------------------------------------------------
(* Properties of process_file (SpecProcess).                               *)

Abs(x) == IF x < 0 THEN -x ELSE x

SummaryRows == {out.rows[i] : i \in 1..Len(out.rows)}

\* C5, as the code has it: Avg_per_Visit is 0 when Visits is 0, and
\* otherwise the integer nearest to Total / Visits, a tie going to the even
\* integer (Total 5 and Visits 2 gives 2).
C5_AvgRoundsHalfToEven ==
    \A s \in SummaryRows :
        /\ s.Visits = 0 => s.Avg_per_Visit = 0
        /\ s.Visits > 0 =>
              LET d == 2 * Abs(s.Avg_per_Visit * s.Visits - s.Total)
              IN  d <= s.Visits /\ (d = s.Visits => s.Avg_per_Visit % 2 = 0)

\* C5, as claimed: Avg_per_Visit is 0 when Visits is 0, and otherwise
\* Total / Visits rounded half up (Total 5 and Visits 2 gives 3).
C5_AvgRoundsHalfUp ==
    \A s \in SummaryRows :
        /\ s.Visits = 0 => s.Avg_per_Visit = 0
        /\ s.Visits > 0 => s.Avg_per_Visit = (2 * s.Total + s.Visits) \div (2 * s.Visits)

\* A summary row of Total 5 over 2 visits, with average 2.
C5_TieReached ==
    \E s \in SummaryRows : s.Total = 5 /\ s.Visits = 2 /\ s.Avg_per_Visit = 2

\* The rows of the table as process_file reads them (lines 98-125).
Recs == normalize_rows(normalize_cols(df.cols), bind_columns(df.cols), df.rows)

\* Two visit cells with the same trimmed identifier.
SameVisit(x, y) == x.t = y.t /\ x.n = y.n /\ strip(x.s) = strip(y.s)

HasKey(s, key) ==
    s.DocName = key.doc /\ s.Year = key.Year /\ s.MonthNum = key.MonthNum

Subtotal(s, bkt) ==
    IF bkt = "Consultation" THEN s.Consultation
    ELSE IF bkt = "Medicines" THEN s.Medicines
    ELSE IF bkt = "Procedure" THEN s.Procedure ELSE s.Other

ValidDateTexts == {"2024-01-05", "2024-02-10", "2024-02-29"}

\* The position of the column bound to VisitDate.
DateIndex == ColIndex(normalize_cols(df.cols), bind_columns(df.cols).date_col.v)

\* Whether cell x holds a date.
HasDate(x) == x.t = "str" /\ strip(x.s) \in ValidDateTexts

\* The rows whose VisitDate is a date.
DatedRows == LET d == DateIndex IN {i \in 1..Len(df.rows) : HasDate(df.rows[i][d])}

RECURSIVE Keep(_, _)
\* The rows of the sequence whose index is in S.
Keep(rows, S) ==
    IF rows = <<>> THEN <<>>
    ELSE Keep(SubSeq(rows, 1, Len(rows) - 1), S)
            \o (IF Len(rows) \in S THEN <<rows[Len(rows)]>> ELSE <<>>)

TotalOf(rows) == SumOver([i \in 1..Len(rows) |-> rows[i].Total], 1..Len(rows))

\* The sum of the amounts, as process_file reads them, of the rows in S.
AmountOf(recs, S) == SumOver([i \in 1..Len(recs) |-> recs[i].amount], S)

\* C7: a row whose VisitDate cannot be parsed contributes to no summary row
\* (the summary is that of the table without such rows), the invalid-date
\* count is the number of such rows, and no row with a valid date is left
\* out on that ground (the Totals add up to the amounts of the dated rows
\* that have a doctor).
C7_UndatedRowsExcludedAndCounted ==
    ~out.raised =>
        LET dated == DatedRows
            recs == Recs
        IN  /\ out.bad_dates = Len(df.rows) - Cardinality(dated)
            /\ out.rows = process_file(Table(df.cols, Keep(df.rows, dated))).rows
            /\ TotalOf(out.rows) = AmountOf(recs, {i \in dated : ~isna(recs[i].doc)})

\* A table of one row with an unparseable date and one dated row: one
\* summary row, one invalid date counted.
C7_OneUndatedOneDated ==
    /\ ~out.raised
    /\ Len(df.rows) = 2
    /\ df.rows[1][DateIndex] = Str("not-a-date")
    /\ DatedRows = {2}
    /\ out.bad_dates = 1
    /\ Len(out.rows) = 1
    /\ out.rows[1].Total = 1

\* A doctor cell that is missing, empty or only whitespace.
BlankDoctor(x) == isna(x) \/ (x.t = "str" /\ strip(x.s) = "")

\* C9: no dated row is dropped for its doctor name: each dated row whose
\* doctor is missing, empty or only whitespace is in the summary row of the
\* empty-string doctor for its year and month, and the Totals add up to the
\* amounts of all dated rows.
C9_NoDatedRowDropped ==
    ~out.raised =>
        LET dated == DatedRows
            recs == Recs
        IN  /\ \A i \in dated :
                  BlankDoctor(recs[i].doc) =>
                     \E s \in SummaryRows :
                        /\ s.DocName = Str("")
                        /\ s.Year = recs[i].Year
                        /\ s.MonthNum = recs[i].MonthNum
            /\ TotalOf(out.rows) = AmountOf(recs, dated)

=============================================================================
